---- MODULE Spec2Model ----
(***************************************************************************)
(* Model of src/main.ts (action-tagger): one run of action(), step by      *)
(* step, against a remote repository (branch refs, tags, commits, issues). *)
(*                                                                         *)
(* Strings are sequences of one-character strings, so that prefix tests,   *)
(* split, trim and regular-expression searches are computed.  A tag name   *)
(* or version string is kept in lexical form [lead, core, pre]:            *)
(*   lead  the characters before the first number ("v", "=v", or a whole   *)
(*         non-version name such as "latest"),                             *)
(*   core  the dot-separated numbers (three for MAJOR.MINOR.PATCH),        *)
(*   pre   the dot-separated identifiers after the first "-".              *)
(* so "v1.2.1-rc.1" is [lead: "v", core: 1,2,1, pre: "rc","1"].            *)
(***************************************************************************)
EXTENDS Integers, Sequences, FiniteSets, TLC

\* ------------------------------------------------------------- bounds
MaxTags == 2        \* longest tag list returned by listTags
MaxCommits == 2     \* commits on the history line
MaxLabels == 2      \* labels on an issue

\* ------------------------------------------------------------- strings
\* JavaScript compares strings by code unit; the characters used, in order.
AsciiOrder ==
  <<" ", "#", ",", "-", ".", "/", "0", "1", "2", "3", "4", "5", "6", "7", "8",
    "9", "=", "_", "a", "b", "c", "d", "e", "f", "g", "h", "i", "j", "k", "l",
    "m", "n", "o", "p", "q", "r", "s", "t", "u", "v", "w", "x", "y", "z">>

Ord(c) == CHOOSE i \in 1..Len(AsciiOrder) : AsciiOrder[i] = c

Digits == <<"0", "1", "2", "3", "4", "5", "6", "7", "8", "9">>

IsDigit(c) == \E i \in 1..10 : Digits[i] = c

IsLetter(c) == Ord(c) >= Ord("a") /\ Ord(c) <= Ord("z")

\* String(n) for the small numbers of the model
ToDigits(n) ==
  IF n < 10 THEN <<Digits[n + 1]>>
  ELSE <<Digits[(n \div 10) + 1], Digits[(n % 10) + 1]>>

DigitVal(c) == (CHOOSE i \in 1..10 : Digits[i] = c) - 1

RECURSIVE FromDigits(_)
FromDigits(s) ==
  IF s = <<>> THEN 0
  ELSE 10 * FromDigits(SubSeq(s, 1, Len(s) - 1)) + DigitVal(s[Len(s)])

AllDigits(s) == Len(s) > 0 /\ \A i \in 1..Len(s) : IsDigit(s[i])

\* s < t in JavaScript's string order
RECURSIVE StrLess(_, _)
StrLess(s, t) ==
  IF t = <<>> THEN FALSE
  ELSE IF s = <<>> THEN TRUE
  ELSE IF s[1] # t[1] THEN Ord(s[1]) < Ord(t[1])
  ELSE StrLess(Tail(s), Tail(t))

StartsWith(s, p) == Len(p) <= Len(s) /\ SubSeq(s, 1, Len(p)) = p

\* the positions at which p occurs in s
Occurrences(s, p) ==
  {i \in 1..(Len(s) - Len(p) + 1) : SubSeq(s, i, i + Len(p) - 1) = p}

\* new RegExp(p).test(s) for a pattern of literal characters: a search
RegExpTest(p, s) == Occurrences(s, p) # {}

Min(S) == CHOOSE x \in S : \A y \in S : x <= y

\* s.replace(/p/, '') for a literal p: the first occurrence is removed
RemoveFirst(s, p) ==
  IF Occurrences(s, p) = {} THEN s
  ELSE LET i == Min(Occurrences(s, p))
       IN SubSeq(s, 1, i - 1) \o SubSeq(s, i + Len(p), Len(s))

\* s.split(sep): never empty, the pieces between the separators
RECURSIVE Split(_, _)
Split(s, sep) ==
  IF \A i \in 1..Len(s) : s[i] # sep THEN <<s>>
  ELSE LET i == Min({j \in 1..Len(s) : s[j] = sep})
       IN <<SubSeq(s, 1, i - 1)>> \o Split(SubSeq(s, i + 1, Len(s)), sep)

\* s.trim()
RECURSIVE Trim(_)
Trim(s) ==
  IF s = <<>> THEN s
  ELSE IF s[1] = " " THEN Trim(Tail(s))
  ELSE IF s[Len(s)] = " " THEN Trim(SubSeq(s, 1, Len(s) - 1))
  ELSE s

\* array.pop() / array.shift() of a non-empty array, as a value
Last(q) == q[Len(q)]

\* core.getInput(...).toLowerCase(): the inputs of the model use the
\* upper-case letters T, R, U, E, F, A, L, S written as "T".."S" below.
LowerOf(c) ==
  CASE c = "T" -> "t" [] c = "R" -> "r" [] c = "U" -> "u" [] c = "E" -> "e"
    [] c = "F" -> "f" [] c = "A" -> "a" [] c = "L" -> "l" [] c = "S" -> "s"
    [] OTHER -> c

ToLowerCase(s) == [i \in 1..Len(s) |-> LowerOf(s[i])]

\* ------------------------------------------------------------- semver
\* JavaScript null / undefined
Null == [null |-> TRUE]

Str(lead, core, pre) == [lead |-> lead, core |-> core, pre |-> pre]

IsIdChar(c) == IsDigit(c) \/ IsLetter(c) \/ c = "-"

\* a prerelease identifier of the semver grammar: 0|[1-9]\d* or
\* \d*[a-zA-Z-][a-zA-Z0-9-]*
ValidPreId(tok) ==
  /\ Len(tok) > 0
  /\ \A i \in 1..Len(tok) : IsIdChar(tok[i])
  /\ AllDigits(tok) => (Len(tok) = 1 \/ tok[1] # "0")

\* semver.parse(s): the strict grammar, one optional leading v
Parse(s) ==
  IF /\ s.lead \in {<<>>, <<"v">>}
     /\ Len(s.core) = 3
     /\ \A i \in 1..Len(s.pre) : ValidPreId(s.pre[i])
  THEN [major |-> s.core[1], minor |-> s.core[2], patch |-> s.core[3],
        prerelease |-> s.pre]
  ELSE Null

RECURSIVE JoinSplitDots(_)
JoinSplitDots(pre) ==
  IF pre = <<>> THEN <<>>
  ELSE Split(pre[1], ".") \o JoinSplitDots(Tail(pre))

\* SemVer.format(): MAJOR.MINOR.PATCH[-prerelease.join('.')], read back in
\* lexical form (an identifier holding a dot reads as several)
Format(v) == Str(<<>>, <<v.major, v.minor, v.patch>>, JoinSplitDots(v.prerelease))

\* version.replace(/^[=v]+/, '')
RECURSIVE StripLead(_)
StripLead(lead) ==
  IF lead # <<>> /\ lead[1] \in {"=", "v"} THEN StripLead(Tail(lead)) ELSE lead

\* semver.clean(name): the version string, or null
Clean(s) ==
  LET p == Parse([s EXCEPT !.lead = StripLead(s.lead)])
  IN IF p = Null THEN Null ELSE Format(p)

\* semver.prerelease(name): null for no prerelease and for an unparsable name
Prerelease(s) ==
  LET p == Parse(s)
  IN IF p = Null THEN Null
     ELSE IF p.prerelease = <<>> THEN Null ELSE p.prerelease

\* compareIdentifiers(a, b): -1, 0, 1
CompareIdentifiers(a, b) ==
  IF AllDigits(a) /\ AllDigits(b)
  THEN (IF FromDigits(a) = FromDigits(b) THEN 0
        ELSE IF FromDigits(a) < FromDigits(b) THEN -1 ELSE 1)
  ELSE IF a = b THEN 0
  ELSE IF AllDigits(a) THEN -1
  ELSE IF AllDigits(b) THEN 1
  ELSE IF StrLess(a, b) THEN -1 ELSE 1

RECURSIVE ComparePreFrom(_, _)
ComparePreFrom(p, q) ==
  IF p = <<>> /\ q = <<>> THEN 0
  ELSE IF q = <<>> THEN 1
  ELSE IF p = <<>> THEN -1
  ELSE IF p[1] = q[1] THEN ComparePreFrom(Tail(p), Tail(q))
  ELSE CompareIdentifiers(p[1], q[1])

\* SemVer.comparePre
ComparePre(v, w) ==
  IF v.prerelease # <<>> /\ w.prerelease = <<>> THEN -1
  ELSE IF v.prerelease = <<>> /\ w.prerelease # <<>> THEN 1
  ELSE ComparePreFrom(v.prerelease, w.prerelease)

Cmp(a, b) == IF a = b THEN 0 ELSE IF a < b THEN -1 ELSE 1

\* SemVer.compareMain
CompareMain(v, w) ==
  IF Cmp(v.major, w.major) # 0 THEN Cmp(v.major, w.major)
  ELSE IF Cmp(v.minor, w.minor) # 0 THEN Cmp(v.minor, w.minor)
  ELSE Cmp(v.patch, w.patch)

\* semver.compare(a, b) of two version strings
Compare(a, b) ==
  LET v == Parse(a)
      w == Parse(b)
  IN IF CompareMain(v, w) # 0 THEN CompareMain(v, w) ELSE ComparePre(v, w)

\* inc('pre', identifier) on a prerelease array
IncPre(pre, identifier) ==
  LET nums == {i \in 1..Len(pre) : AllDigits(pre[i])}
      bumped ==
        IF pre = <<>> THEN <<<<"0">>>>
        ELSE IF nums = {} THEN Append(pre, <<"0">>)
        ELSE LET i == CHOOSE j \in nums : \A k \in nums : k <= j
             IN [pre EXCEPT ![i] = ToDigits(FromDigits(pre[i]) + 1)]
  IN IF identifier = <<>> THEN bumped
     ELSE IF (~AllDigits(bumped[1])) /\ bumped[1] = identifier
     THEN (IF Len(bumped) < 2 \/ ~AllDigits(bumped[2])
           THEN <<identifier, <<"0">>>> ELSE bumped)
     ELSE <<identifier, <<"0">>>>

\* SemVer.inc(release, identifier) on a parsed version
IncParsed(v, release, identifier) ==
  CASE release = "major" ->
         [major |-> IF v.minor # 0 \/ v.patch # 0 \/ v.prerelease = <<>>
                    THEN v.major + 1 ELSE v.major,
          minor |-> 0, patch |-> 0, prerelease |-> <<>>]
    [] release = "minor" ->
         [major |-> v.major,
          minor |-> IF v.patch # 0 \/ v.prerelease = <<>>
                    THEN v.minor + 1 ELSE v.minor,
          patch |-> 0, prerelease |-> <<>>]
    [] release = "patch" ->
         [major |-> v.major, minor |-> v.minor,
          patch |-> IF v.prerelease = <<>> THEN v.patch + 1 ELSE v.patch,
          prerelease |-> <<>>]
    [] release = "prerelease" ->
         IF v.prerelease = <<>>
         THEN [major |-> v.major, minor |-> v.minor, patch |-> v.patch + 1,
               prerelease |-> IncPre(<<>>, identifier)]
         ELSE [v EXCEPT !.prerelease = IncPre(v.prerelease, identifier)]
    [] OTHER -> Null

\* semver.inc(version, release, identifier): the next version string, or
\* null for an unparsable version or an unknown release type
Inc(version, release, identifier) ==
  LET v == Parse(version)
  IN IF v = Null THEN Null
     ELSE IF IncParsed(v, release, identifier) = Null THEN Null
     ELSE Format(IncParsed(v, release, identifier))

\* ------------------------------------------------------------- regular expressions of checkMessages
IsWordChar(c) == IsDigit(c) \/ IsLetter(c) \/ c = "_"

\* new RegExp(marker + '\\b').test(message): the marker, then a word boundary
MarkerTest(marker, message) ==
  \E i \in Occurrences(message, marker) :
    \/ i + Len(marker) > Len(message)
    \/ ~IsWordChar(message[i + Len(marker)])

S_wip == <<"#", "w", "i", "p">>
S_major == <<"#", "m", "a", "j", "o", "r">>
S_minor == <<"#", "m", "i", "n", "o", "r">>
S_patch == <<"#", "p", "a", "t", "c", "h">>
S_fix == <<"f", "i", "x", " ", "#">>
S_fixes == <<"f", "i", "x", "e", "s", " ", "#">>

\* the positions of the first digit of each match of fix(?:es)? #\d+
FixDigitPos(message) ==
  {j \in 1..Len(message) :
     /\ IsDigit(message[j])
     /\ \/ (j - Len(S_fix)) \in Occurrences(message, S_fix)
        \/ (j - Len(S_fixes)) \in Occurrences(message, S_fixes)}

\* new RegExp('fix(?:es)? #\\d+').test(message)
FixTest(message) == FixDigitPos(message) # {}

\* the last position of the run of digits that starts at j
DigitRunEnd(message, j) ==
  CHOOSE k \in j..Len(message) :
    /\ \A n \in j..k : IsDigit(message[n])
    /\ k = Len(message) \/ ~IsDigit(message[k + 1])

\* Number(/fix(?:es)? #(\d+)\b/.exec(message)[1]) of the leftmost match in
\* which the digits end at a word boundary; -1 when exec returns null
MatcherId(message) ==
  LET good == {j \in FixDigitPos(message) :
                 LET k == DigitRunEnd(message, j)
                 IN k = Len(message) \/ ~IsWordChar(message[k + 1])}
  IN IF good = {} THEN -1
     ELSE LET j == Min(good)
          IN FromDigits(SubSeq(message, j, DigitRunEnd(message, j)))

\* ------------------------------------------------------------- the run
VARIABLES
  inputs,        \* core.getInput: dryRun, bump, branch, releaseBranch, withV, tag, issueLabels
  contextRef,    \* github.context.ref
  refs,          \* remote branch refs, in name order: [ref, sha]
  tags,          \* remote tags as listTags returns them: [name, sha]
  commits,       \* the history line: commits[k] is the message of commit k
  issues,        \* remote issues: issue number -> its labels
  pc,            \* position of action()
  branchInfo,    \* the resolved branch ref, or Null
  latestTag,     \* getLatestTag(octokit)
  latestMainTag, \* getLatestTag(octokit, false)
  version,       \* semver.clean(versionTag)
  nextVersion,   \* the computed version, undefined (Null) until computed
  releaseBump,   \* the running classification of checkMessages
  msgLevel,      \* the result of checkMessages
  idx,           \* index of the commit the scan is at
  outputs,       \* core.setOutput: tag, newTag
  calls,         \* the remote calls issued, in order
  lookups,       \* the issue numbers fetched, in order
  created,       \* the refs created remotely by this run
  failure        \* core.setFailed message, "" while none

envVars == <<inputs, contextRef, refs, tags, commits, issues>>

runVars == <<pc, branchInfo, latestTag, latestMainTag, version, nextVersion,
             releaseBump, msgLevel, idx, outputs, calls, lookups, created, failure>>

vars == <<envVars, runVars>>

Unset == [unset |-> TRUE]

EmptyName == Str(<<>>, <<>>, <<>>)

RefsHeads == <<"r", "e", "f", "s", "/", "h", "e", "a", "d", "s", "/">>
Heads == <<"h", "e", "a", "d", "s", "/">>
RefsPrefix == <<"r", "e", "f", "s", "/">>
S_true == <<"t", "r", "u", "e">>
S_false == <<"f", "a", "l", "s", "e">>
S_null == <<"n", "u", "l", "l">>
S_empty == <<"e", "m", "p", "t", "y">>
S_enhancement == <<"e", "n", "h", "a", "n", "c", "e", "m", "e", "n", "t">>

\* octokit.rest.git.listMatchingRefs({ref}): the refs whose name starts with ref
ListMatchingRefs(ref) ==
  SelectSeq(refs, LAMBDA r : StartsWith(r.ref, RefsPrefix \o ref))

\* loadBranch: the first matching ref, undefined when there is none
LoadBranch(branch) ==
  LET data == ListMatchingRefs(Heads \o branch)
  IN IF data = <<>> THEN Null ELSE Head(data)

\* checkTag looking at the last listed tag only
CheckTagLastOnly(tagName) == tags # <<>> /\ tags[Len(tags)].name = tagName

\* checkTag: some listed tag has exactly that name
CheckTag(tagName) == \E i \in 1..Len(tags) : tags[i].name = tagName

\* allVTags.sort(compare): a stable sort, ascending
RECURSIVE SortTags(_)
SortTags(q) ==
  IF q = <<>> THEN <<>>
  ELSE LET init == SortTags(SubSeq(q, 1, Len(q) - 1))
           t == q[Len(q)]
           keep == {i \in 1..Len(init) :
                      Compare(Clean(init[i].name), Clean(t.name)) <= 0}
           n == IF keep = {} THEN 0 ELSE CHOOSE i \in keep : \A k \in keep : k <= i
       IN SubSeq(init, 1, n) \o <<t>> \o SubSeq(init, n + 1, Len(init))

\* getLatestTag over the tag list data that listTags returns
LatestOf(data, boolAll) ==
  LET allVTags == SortTags(SelectSeq(data, LAMBDA t : Clean(t.name) # Null))
      filtered == SelectSeq(allVTags, LAMBDA b : Prerelease(b.name) = Null)
  IN IF boolAll
     THEN (IF allVTags = <<>> THEN Null ELSE Last(allVTags))
     ELSE (IF filtered = <<>> THEN Null ELSE Last(filtered))

\* getLatestTag(octokit, boolAll)
GetLatestTag(boolAll) == LatestOf(tags, boolAll)

\* isReleaseBranch(branchName, branchList)
IsReleaseBranch(branchName, branchList) ==
  LET list == Split(branchList, ",")
  IN \E i \in 1..Len(list) : RegExpTest(Trim(list[i]), branchName)

\* dry-run compared without toLowerCase()
DryRunCaseSensitive == inputs.dryRun

\* the values action() derives from its inputs and locals
DryRun == ToLowerCase(inputs.dryRun)

WithV == IF ToLowerCase(inputs.withV) = S_false THEN <<>> ELSE <<"v">>

Sha == branchInfo.sha

\* branchInfo.ref.split('/').pop()
BranchName == Last(Split(branchInfo.ref, "/"))

\* github.context.ref.replace(/refs\/heads\//, '')
ActiveBranch == RemoveFirst(contextRef, RefsHeads)

\* issLabs: the configured labels, or ['enhancement']
IssLabs ==
  IF inputs.issueLabels = <<>> THEN {S_enhancement}
  ELSE LET xlabels == Split(inputs.issueLabels, ",")
       IN {Trim(xlabels[i]) : i \in 1..Len(xlabels)}

\* the ref built from the computed version even when a custom tag is set
NewTagNameIgnoringCustomTag ==
  IF nextVersion = Null THEN Str(WithV \o S_null, <<>>, <<>>)
  ELSE [nextVersion EXCEPT !.lead = WithV \o nextVersion.lead]

\* `${withV}${nextVersion}` / customTag: the name after refs/tags/
NewTagName ==
  IF inputs.tag # EmptyName THEN inputs.tag
  ELSE IF nextVersion = Null THEN Str(WithV \o S_null, <<>>, <<>>)
  ELSE [nextVersion EXCEPT !.lead = WithV \o nextVersion.lead]

\* result.data of listCommits({sha}): the commits reachable from sha, newest first
CommitData == [k \in 1..Sha |-> [sha |-> Sha - k + 1, message |-> commits[Sha - k + 1]]]

\* the loop without the break at the tagged commit
AtCommitIgnoringTag ==
  /\ pc = "scan"
  /\ idx <= Len(CommitData)

\* the loop of checkMessages is at a commit it will examine
AtCommit ==
  /\ pc = "scan"
  /\ idx <= Len(CommitData)
  /\ ~(latestMainTag # Null /\ CommitData[idx].sha = latestMainTag.sha)

Message == CommitData[idx].message

\* the fix reference looked up whatever releaseBump already is
NeedsLookupAtMinor ==
  /\ AtCommit
  /\ ~MarkerTest(S_wip, Message)
  /\ ~MarkerTest(S_major, Message)
  /\ ~MarkerTest(S_minor, Message)
  /\ ~MarkerTest(S_patch, Message)
  /\ FixTest(Message)
  /\ MatcherId(Message) > 0

\* the fix reference looked up for any issue number, 0 included
NeedsLookupAnyNumber ==
  /\ AtCommit
  /\ ~MarkerTest(S_wip, Message)
  /\ ~MarkerTest(S_major, Message)
  /\ ~MarkerTest(S_minor, Message)
  /\ ~(releaseBump # "minor" /\ MarkerTest(S_patch, Message))
  /\ releaseBump # "minor"
  /\ FixTest(Message)
  /\ MatcherId(Message) >= 0

\* the commit at idx makes checkMessages call issues.get
NeedsLookup ==
  /\ AtCommit
  /\ ~MarkerTest(S_wip, Message)
  /\ ~MarkerTest(S_major, Message)
  /\ ~MarkerTest(S_minor, Message)
  /\ ~(releaseBump # "minor" /\ MarkerTest(S_patch, Message))
  /\ releaseBump # "minor"
  /\ FixTest(Message)
  /\ MatcherId(Message) > 0

\* the labels loop looking at the first label only
LabelBumpFirstLabelOnly(labels, issueTags) ==
  IF /\ labels # <<>>
     /\ labels[1].isObject
     /\ (IF labels[1].name = <<>> THEN S_empty ELSE labels[1].name) \in issueTags
  THEN "minor" ELSE "patch"

\* the labels loop: minor when an object label's name is among issueTags
LabelBump(labels, issueTags) ==
  IF \E n \in 1..Len(labels) :
       /\ labels[n].isObject
       /\ (IF labels[n].name = <<>> THEN S_empty ELSE labels[n].name) \in issueTags
  THEN "minor" ELSE "patch"

Fail(message) ==
  /\ pc' = "failed"
  /\ failure' = message

Call(op) == calls' = Append(calls, op)

\* lines 224-234, 250-253: the forced branch
LoadForcedBranch ==
  /\ pc = "start"
  /\ inputs.branch # <<>>
  /\ Call("listMatchingRefs")
  /\ branchInfo' = LoadBranch(inputs.branch)
  /\ IF branchInfo' = Null
     THEN Fail("unknown branch provided")
     ELSE pc' = "resolved" /\ UNCHANGED failure
  /\ UNCHANGED <<envVars, latestTag, latestMainTag, version, nextVersion,
                 releaseBump, msgLevel, idx, outputs, lookups, created>>

\* lines 236-253: the branch of the triggering ref
LoadActiveBranch ==
  /\ pc = "start"
  /\ inputs.branch = <<>>
  /\ Call("listMatchingRefs")
  /\ branchInfo' = LoadBranch(ActiveBranch)
  /\ IF branchInfo' = Null
     THEN Fail("failed to load branch")
     ELSE pc' = "resolved" /\ UNCHANGED failure
  /\ UNCHANGED <<envVars, latestTag, latestMainTag, version, nextVersion,
                 releaseBump, msgLevel, idx, outputs, lookups, created>>

\* lines 255-261: the custom tag
CheckCustomTag ==
  /\ pc = "resolved"
  /\ inputs.tag # EmptyName
  /\ Call("listTags")
  /\ IF CheckTag(inputs.tag)
     THEN Fail("tag already exists") /\ UNCHANGED outputs
     ELSE /\ outputs' = [outputs EXCEPT !.newTag = inputs.tag]
          /\ pc' = "write"
          /\ UNCHANGED failure
  /\ UNCHANGED <<envVars, branchInfo, latestTag, latestMainTag, version,
                 nextVersion, releaseBump, msgLevel, idx, lookups, created>>

\* line 265
LoadLatestTag ==
  /\ pc = "resolved"
  /\ inputs.tag = EmptyName
  /\ Call("listTags")
  /\ latestTag' = GetLatestTag(TRUE)
  /\ pc' = "latest"
  /\ UNCHANGED <<envVars, branchInfo, latestMainTag, version, nextVersion,
                 releaseBump, msgLevel, idx, outputs, lookups, created, failure>>

\* the conflict check made against the latest main tag instead
NoNewCommitsSinceMainTag == latestMainTag' # Null /\ latestMainTag'.sha = Sha

\* line 287: the latest tag sits on the head of the branch
NoNewCommits == latestTag # Null /\ latestTag.sha = Sha

\* lines 266-308: the main tag, the previous-tag output, the conflict check
\* and the default prerelease version
LoadLatestMainTag ==
  /\ pc = "latest"
  /\ Call("listTags")
  /\ latestMainTag' = GetLatestTag(FALSE)
  /\ LET versionTag == IF latestTag # Null THEN latestTag.name
                       ELSE Str(<<>>, <<0, 0, 0>>, <<>>)
     IN /\ outputs' = [outputs EXCEPT !.tag = versionTag]
        /\ IF NoNewCommits
           THEN /\ Fail("no new commits, avoid tagging")
                /\ UNCHANGED <<version, nextVersion>>
           ELSE /\ version' = Clean(versionTag)
                /\ nextVersion' = Inc(version', "prerelease", BranchName)
                /\ pc' = "listCommits"
                /\ UNCHANGED failure
  /\ UNCHANGED <<envVars, branchInfo, latestTag, releaseBump, msgLevel, idx,
                 lookups, created>>

\* lines 97-107: checkMessages lists the commits
ListCommits ==
  /\ pc = "listCommits"
  /\ Call("listCommits")
  /\ releaseBump' = "none"
  /\ idx' = 1
  /\ pc' = "scan"
  /\ UNCHANGED <<envVars, branchInfo, latestTag, latestMainTag, version,
                 nextVersion, msgLevel, outputs, lookups, created, failure>>

\* the loop recording #major like the other markers and scanning on
ScanCommitMajorContinues ==
  /\ AtCommit
  /\ ~NeedsLookup
  /\ IF MarkerTest(S_wip, Message)
     THEN idx' = idx + 1 /\ UNCHANGED <<releaseBump, msgLevel, pc>>
     ELSE IF MarkerTest(S_major, Message)
     THEN releaseBump' = "major" /\ idx' = idx + 1 /\ UNCHANGED <<msgLevel, pc>>
     ELSE IF MarkerTest(S_minor, Message)
     THEN releaseBump' = "minor" /\ idx' = idx + 1 /\ UNCHANGED <<msgLevel, pc>>
     ELSE IF releaseBump # "minor" /\ MarkerTest(S_patch, Message)
     THEN releaseBump' = "patch" /\ idx' = idx + 1 /\ UNCHANGED <<msgLevel, pc>>
     ELSE idx' = idx + 1 /\ UNCHANGED <<releaseBump, msgLevel, pc>>
  /\ UNCHANGED <<envVars, branchInfo, latestTag, latestMainTag, version,
                 nextVersion, outputs, calls, lookups, created, failure>>

\* the loop testing #major before #wip
ScanCommitMajorBeforeWip ==
  /\ AtCommit
  /\ ~NeedsLookup
  /\ IF MarkerTest(S_major, Message)
     THEN msgLevel' = "major" /\ pc' = "compute" /\ UNCHANGED <<releaseBump, idx>>
     ELSE IF MarkerTest(S_wip, Message)
     THEN idx' = idx + 1 /\ UNCHANGED <<releaseBump, msgLevel, pc>>
     ELSE IF MarkerTest(S_minor, Message)
     THEN releaseBump' = "minor" /\ idx' = idx + 1 /\ UNCHANGED <<msgLevel, pc>>
     ELSE IF releaseBump # "minor" /\ MarkerTest(S_patch, Message)
     THEN releaseBump' = "patch" /\ idx' = idx + 1 /\ UNCHANGED <<msgLevel, pc>>
     ELSE idx' = idx + 1 /\ UNCHANGED <<releaseBump, msgLevel, pc>>
  /\ UNCHANGED <<envVars, branchInfo, latestTag, latestMainTag, version,
                 nextVersion, outputs, calls, lookups, created, failure>>

\* lines 117-185: one iteration of the loop that fetches no issue
ScanCommit ==
  /\ AtCommit
  /\ ~NeedsLookup
  /\ IF MarkerTest(S_wip, Message)
     THEN idx' = idx + 1 /\ UNCHANGED <<releaseBump, msgLevel, pc>>
     ELSE IF MarkerTest(S_major, Message)
     THEN msgLevel' = "major" /\ pc' = "compute" /\ UNCHANGED <<releaseBump, idx>>
     ELSE IF MarkerTest(S_minor, Message)
     THEN releaseBump' = "minor" /\ idx' = idx + 1 /\ UNCHANGED <<msgLevel, pc>>
     ELSE IF releaseBump # "minor" /\ MarkerTest(S_patch, Message)
     THEN releaseBump' = "patch" /\ idx' = idx + 1 /\ UNCHANGED <<msgLevel, pc>>
     ELSE idx' = idx + 1 /\ UNCHANGED <<releaseBump, msgLevel, pc>>
  /\ UNCHANGED <<envVars, branchInfo, latestTag, latestMainTag, version,
                 nextVersion, outputs, calls, lookups, created, failure>>

\* lines 150-183: the iteration that fetches the issue of a fix reference
ScanFixIssue ==
  /\ NeedsLookup
  /\ MatcherId(Message) \in DOMAIN issues
  /\ Call("issues.get")
  /\ lookups' = Append(lookups, MatcherId(Message))
  /\ releaseBump' = LabelBump(issues[MatcherId(Message)], IssLabs)
  /\ idx' = idx + 1
  /\ UNCHANGED <<envVars, pc, branchInfo, latestTag, latestMainTag, version,
                 nextVersion, msgLevel, outputs, created, failure>>

\* lines 121-123, 187: the loop ends at the tagged commit or at the end of the list
ScanEnd ==
  /\ pc = "scan"
  /\ ~AtCommit
  /\ msgLevel' = releaseBump
  /\ pc' = "compute"
  /\ UNCHANGED <<envVars, branchInfo, latestTag, latestMainTag, version,
                 nextVersion, releaseBump, idx, outputs, calls, lookups, created,
                 failure>>

\* the configured level used whatever the commits say
ReleaseTypeConfigured == inputs.bump

\* lines 323-329: the level the release branch is bumped by
ReleaseType == IF msgLevel = "none" THEN inputs.bump ELSE msgLevel

\* lines 320-335: the full bump on a release branch, the new-tag output
ComputeVersion ==
  /\ pc = "compute"
  /\ nextVersion' =
       IF IsReleaseBranch(BranchName, inputs.releaseBranch)
       THEN Inc(version, ReleaseType, <<>>)
       ELSE nextVersion
  /\ outputs' = [outputs EXCEPT !.newTag = nextVersion']
  /\ pc' = "write"
  /\ UNCHANGED <<envVars, branchInfo, latestTag, latestMainTag, version,
                 releaseBump, msgLevel, idx, calls, lookups, created, failure>>

\* lines 338-341
DryRunReturn ==
  /\ pc = "write"
  /\ DryRun = S_true
  /\ pc' = "done"
  /\ UNCHANGED <<envVars, branchInfo, latestTag, latestMainTag, version,
                 nextVersion, releaseBump, msgLevel, idx, outputs, calls, lookups,
                 created, failure>>

\* the remote holds a ref refs/tags/<name>: createRef is rejected
RemoteTagExists(name) == \E i \in 1..Len(tags) : tags[i].name = name

\* lines 343-354: the remote creates the ref unless a tag of that name exists
CreateRef ==
  /\ pc = "write"
  /\ DryRun # S_true
  /\ ~RemoteTagExists(NewTagName)
  /\ Call("createRef")
  /\ created' = Append(created, [ref |-> NewTagName, sha |-> Sha])
  /\ pc' = "done"
  /\ UNCHANGED <<envVars, branchInfo, latestTag, latestMainTag, version,
                 nextVersion, releaseBump, msgLevel, idx, outputs, lookups, failure>>

\* the remote call the run is about to issue, "" when the next step is local
NextCall ==
  CASE pc = "start" -> "listMatchingRefs"
    [] pc \in {"resolved", "latest"} -> "listTags"
    [] pc = "listCommits" -> "listCommits"
    [] NeedsLookup -> "issues.get"
    [] pc = "write" /\ DryRun # S_true -> "createRef"
    [] OTHER -> ""

\* a rejected call whose error is recorded while the run ends as done
RemoteFailureEndsDone ==
  /\ NextCall # ""
  /\ Call(NextCall)
  /\ pc' = "done"
  /\ failure' = "remote error"
  /\ UNCHANGED <<envVars, branchInfo, latestTag, latestMainTag, version,
                 nextVersion, releaseBump, msgLevel, idx, outputs, lookups, created>>

\* lines 357-361: a remote call rejects, the error reaches the top-level catch
RemoteFailure ==
  /\ NextCall # ""
  /\ Call(NextCall)
  /\ Fail("remote error")
  /\ UNCHANGED <<envVars, branchInfo, latestTag, latestMainTag, version,
                 nextVersion, releaseBump, msgLevel, idx, outputs, lookups, created>>

Next ==
  \/ LoadForcedBranch
  \/ LoadActiveBranch
  \/ CheckCustomTag
  \/ LoadLatestTag
  \/ LoadLatestMainTag
  \/ ListCommits
  \/ ScanCommit
  \/ ScanFixIssue
  \/ ScanEnd
  \/ ComputeVersion
  \/ DryRunReturn
  \/ CreateRef
  \/ RemoteFailure

\* ------------------------------------------------------------- inputs and repositories of the model
B_main == <<"m", "a", "i", "n">>
B_main2 == <<"m", "a", "i", "n", "2">>
B_x == <<"x">>
B_feature_x == <<"f", "e", "a", "t", "u", "r", "e", "/", "x">>
B_mai == <<"m", "a", "i">>

\* the branch names a repository may hold, in the order the remote lists them
BranchUniverse == <<B_feature_x, B_main, B_main2, B_x>>

\* the branch list in which branch k has head heads[k] (0: no such branch)
RefsOf(heads) ==
  LET present == SelectSeq(<<1, 2, 3, 4>>, LAMBDA k : heads[k] > 0)
  IN [n \in 1..Len(present) |->
        [ref |-> RefsHeads \o BranchUniverse[present[n]], sha |-> heads[present[n]]]]

T_v120 == Str(<<"v">>, <<1, 2, 0>>, <<>>)
T_120 == Str(<<>>, <<1, 2, 0>>, <<>>)
T_v121rc1 == Str(<<"v">>, <<1, 2, 1>>, <<<<"r", "c">>, <<"1">>>>)
T_v121x0 == Str(<<"v">>, <<1, 2, 1>>, <<<<"x">>, <<"0">>>>)
T_eq130rc1 == Str(<<"=">>, <<1, 3, 0>>, <<<<"r", "c">>, <<"1">>>>)
T_latest == Str(<<"l", "a", "t", "e", "s", "t">>, <<>>, <<>>)
T_v999 == Str(<<"v">>, <<9, 9, 9>>, <<>>)

TagNames == {T_v120, T_120, T_v121rc1, T_v121x0, T_eq130rc1, T_latest, T_v999}

\* the tag lists of at most n tags with distinct names
TagLists(names, shas, n) ==
  {q \in UNION {[1..k -> [name : names, sha : shas]] : k \in 0..n} :
     \A i, j \in 1..Len(q) : i # j => q[i].name # q[j].name}

M_text == <<"u", "p", "d", "a", "t", "e", " ", "r", "e", "a", "d", "m", "e">>
M_major == <<"#", "m", "a", "j", "o", "r", " ", "a", "p", "i">>
M_minor == <<"a", "d", "d", " ", "#", "m", "i", "n", "o", "r">>
M_patch == <<"#", "p", "a", "t", "c", "h">>
M_wip_major == <<"#", "w", "i", "p", " ", "#", "m", "a", "j", "o", "r">>
M_majority == <<"#", "m", "a", "j", "o", "r", "i", "t", "y">>
M_fix1 == <<"f", "i", "x", " ", "#", "1">>
M_fixes2 == <<"f", "i", "x", "e", "s", " ", "#", "2">>
M_fix0 == <<"f", "i", "x", " ", "#", "0">>
M_fix1x == <<"f", "i", "x", " ", "#", "1", "x">>
M_wip_fix1 == <<"#", "w", "i", "p", " ", "f", "i", "x", " ", "#", "1">>

Messages == {M_text, M_major, M_minor, M_patch, M_wip_major, M_majority,
             M_fix1, M_fixes2, M_fix0, M_fix1x, M_wip_fix1}

L_enhancement == [isObject |-> TRUE, name |-> S_enhancement]
L_bug == [isObject |-> TRUE, name |-> <<"b", "u", "g">>]
L_string == [isObject |-> FALSE, name |-> S_enhancement]

Labels == {L_enhancement, L_bug, L_string}

LabelLists == UNION {[1..k -> Labels] : k \in 0..MaxLabels}

\* issue 1 exists with any labels; issue 2 exists or not
IssueSets ==
  {[n \in {1} |-> q] : q \in LabelLists}
    \cup {[n \in {1, 2} |-> IF n = 1 THEN <<L_bug>> ELSE <<L_enhancement>>]}

BaseIssues == [n \in {1, 2} |-> IF n = 1 THEN <<L_bug>> ELSE <<L_enhancement>>]

InitRun ==
  /\ pc = "start"
  /\ branchInfo = Null
  /\ latestTag = Null
  /\ latestMainTag = Null
  /\ version = Null
  /\ nextVersion = Null
  /\ releaseBump = "none"
  /\ msgLevel = "none"
  /\ idx = 0
  /\ outputs = [tag |-> Unset, newTag |-> Unset]
  /\ calls = <<>>
  /\ lookups = <<>>
  /\ created = <<>>
  /\ failure = ""

AllHeads == [k \in 1..4 |-> MaxCommits]

\* runs over the configuration inputs
InitConfig ==
  /\ inputs \in [dryRun : {<<>>, <<"T", "R", "U", "E">>, <<"t", "r", "u", "e">>}, bump : {"minor", "patch"},
                 branch : {<<>>, B_x}, releaseBranch : {B_main, <<>>},
                 withV : {<<>>, <<"F", "A", "L", "S", "E">>}, tag : {EmptyName, T_v999, T_v120},
                 issueLabels : {<<>>}]
  /\ contextRef = RefsHeads \o B_main
  /\ refs = RefsOf(AllHeads)
  /\ tags \in {<<>>,
               <<[name |-> T_v120, sha |-> 1]>>,
               <<[name |-> T_v120, sha |-> MaxCommits]>>,
               <<[name |-> T_v999, sha |-> 1], [name |-> T_latest, sha |-> 1]>>,
               <<[name |-> T_v120, sha |-> 1], [name |-> T_v121rc1, sha |-> MaxCommits]>>}
  /\ commits \in {[k \in 1..MaxCommits |-> M_text],
                  [k \in 1..MaxCommits |-> IF k = MaxCommits THEN M_fix1 ELSE M_minor]}
  /\ issues = BaseIssues

\* runs over the branch lists
InitBranches ==
  /\ inputs \in [dryRun : {<<>>}, bump : {"patch"},
                 branch : {<<>>, B_main, B_mai, B_feature_x, B_x},
                 releaseBranch : {B_main}, withV : {<<>>},
                 tag : {EmptyName, T_v999}, issueLabels : {<<>>}]
  /\ contextRef \in {RefsHeads \o B_main, RefsHeads \o B_feature_x,
                     <<"r", "e", "f", "s", "/", "t", "a", "g", "s", "/", "v", "1">>}
  /\ refs \in {RefsOf(h) : h \in [1..4 -> 0..MaxCommits]}
  /\ tags = <<[name |-> T_v120, sha |-> 1]>>
  /\ commits = [k \in 1..MaxCommits |-> M_text]
  /\ issues = BaseIssues

\* runs over the tag lists
InitTags ==
  /\ inputs \in [dryRun : {<<>>}, bump : {"major", "minor", "patch"},
                 branch : {<<>>}, releaseBranch : {B_main, B_x}, withV : {<<>>},
                 tag : {EmptyName}, issueLabels : {<<>>}]
  /\ contextRef \in {RefsHeads \o B_main, RefsHeads \o B_feature_x,
                     RefsHeads \o B_x}
  /\ refs = RefsOf(AllHeads)
  /\ tags \in TagLists(TagNames, {1}, MaxTags)
  /\ commits \in {[k \in 1..MaxCommits |-> M_text],
                  [k \in 1..MaxCommits |-> IF k = MaxCommits THEN M_major ELSE M_text]}
  /\ issues = BaseIssues

\* runs over the commit lists
InitScan ==
  /\ inputs \in [dryRun : {<<>>}, bump : {"patch"}, branch : {<<>>},
                 releaseBranch : {B_main}, withV : {<<>>}, tag : {EmptyName},
                 issueLabels : {<<>>, <<"f", "e", "a", "t", ",", " ", "b", "u", "g">>}]
  /\ contextRef = RefsHeads \o B_main
  /\ refs = RefsOf(AllHeads)
  /\ tags \in {<<>>, <<[name |-> T_v120, sha |-> 1]>>,
               <<[name |-> T_v120, sha |-> MaxCommits + 1]>>}
  /\ commits \in [1..MaxCommits -> Messages]
  /\ issues = BaseIssues

\* runs over the issues that fix references name
InitIssues ==
  /\ inputs \in [dryRun : {<<>>}, bump : {"patch"}, branch : {<<>>},
                 releaseBranch : {B_main}, withV : {<<>>}, tag : {EmptyName},
                 issueLabels : {<<>>, <<"f", "e", "a", "t", ",", " ", "b", "u", "g">>}]
  /\ contextRef = RefsHeads \o B_main
  /\ refs = RefsOf(AllHeads)
  /\ tags = <<>>
  /\ commits \in [1..MaxCommits -> {M_text, M_minor, M_fix1, M_fixes2}]
  /\ issues \in IssueSets

Init ==
  /\ InitRun
  /\ \/ InitConfig
     \/ InitBranches
     \/ InitTags
     \/ InitScan
     \/ InitIssues

Spec == Init /\ [][Next]_vars

\* ------------------------------------------------------------- properties
CreateRefCalls == {i \in 1..Len(calls) : calls[i] = "createRef"}

CustomTagExists ==
  /\ inputs.tag # EmptyName
  /\ \E i \in 1..Len(tags) : tags[i].name = inputs.tag

\* C1: when a custom tag is configured and a tag of exactly that name is
\* among the repository's tags, the run never reaches the write step or a
\* successful end, createRef is never called and no ref is created.
C1_CustomTagConflict ==
  CustomTagExists =>
    /\ pc \notin {"write", "done"}
    /\ CreateRefCalls = {}
    /\ created = <<>>
    /\ pc = "failed" => failure \in {"tag already exists", "unknown branch provided",
                                     "failed to load branch", "remote error"}

C1_Witness ==
  /\ CustomTagExists
  /\ pc = "failed"
  /\ failure = "tag already exists"
  /\ calls = <<"listMatchingRefs", "listTags">>

\* C2: when the dry-run input is "true" (in any letter case) createRef is
\* never called and no ref is created; the run still resolves the branch,
\* lists the tags and the commits and sets the outputs before it ends.
C2_DryRunNeverWrites ==
  ToLowerCase(inputs.dryRun) = S_true =>
    /\ CreateRefCalls = {}
    /\ created = <<>>
    /\ (pc = "done" /\ inputs.tag = EmptyName) =>
         /\ SubSeq(calls, 1, 4) = <<"listMatchingRefs", "listTags", "listTags", "listCommits">>
         /\ outputs.tag = (IF latestTag = Null THEN Str(<<>>, <<0, 0, 0>>, <<>>) ELSE latestTag.name)
         /\ outputs.newTag = nextVersion
         /\ nextVersion # Null
    /\ (pc = "done" /\ inputs.tag # EmptyName) =>
         /\ calls = <<"listMatchingRefs", "listTags">>
         /\ outputs.newTag = inputs.tag

C2_Witness ==
  /\ inputs.dryRun = S_true
  /\ inputs.tag = EmptyName
  /\ pc = "done"
  /\ nextVersion # Null
  /\ created = <<>>

\* C3 (as claimed): every run that ends without failure has set both the
\* previous-tag output and the new-tag output.
C3_BothOutputsSet ==
  pc = "done" => (outputs.tag # Unset /\ outputs.newTag # Unset)

\* C4: createRef is called at most once, as the last remote call, after the
\* branch, tag, commit and issue reads; the ref it creates is
\* refs/tags/<prefix><computed version> or the literal custom tag, at the
\* head commit of the resolved branch.
C4_CreateRefOnceLast ==
  /\ Cardinality(CreateRefCalls) <= 1
  /\ Len(created) <= 1
  /\ \A i \in CreateRefCalls :
       /\ i = Len(calls)
       /\ pc \in {"done", "failed"}
       /\ calls[1] = "listMatchingRefs"
       /\ calls[2] = "listTags"
       /\ IF inputs.tag # EmptyName THEN i = 3
          ELSE /\ calls[3] = "listTags"
               /\ calls[4] = "listCommits"
               /\ \A k \in 5..(i - 1) : calls[k] = "issues.get"
  /\ created # <<>> =>
       /\ CreateRefCalls # {}
       /\ pc = "done"
       /\ \E n \in 1..Len(refs) : refs[n] = branchInfo /\ created[1].sha = refs[n].sha
       /\ created[1].ref =
            IF inputs.tag # EmptyName THEN inputs.tag
            ELSE [lead |-> (IF inputs.withV \in {<<"f", "a", "l", "s", "e">>, <<"F", "A", "L", "S", "E">>} THEN <<>> ELSE <<"v">>)
                             \o outputs.newTag.lead,
                  core |-> outputs.newTag.core,
                  pre |-> outputs.newTag.pre]

C4_Witness ==
  /\ created # <<>>
  /\ inputs.tag # EmptyName
  /\ pc = "done"

\* the standard semantic-version increment of a version string by a level
StandardIncrement(cur, lvl) ==
  LET M == cur.core[1]
      m == cur.core[2]
      p == cur.core[3]
      final == cur.pre = <<>>
  IN CASE lvl = "major" ->
            Str(<<>>, <<IF final \/ m # 0 \/ p # 0 THEN M + 1 ELSE M, 0, 0>>, <<>>)
       [] lvl = "minor" ->
            Str(<<>>, <<M, IF final \/ p # 0 THEN m + 1 ELSE m, 0>>, <<>>)
       [] lvl = "patch" ->
            Str(<<>>, <<M, m, IF final THEN p + 1 ELSE p>>, <<>>)

Computed == pc \in {"write", "done"} /\ inputs.tag = EmptyName

OnReleaseBranch == IsReleaseBranch(BranchName, inputs.releaseBranch)

\* C5: on a release branch the next version is the standard increment of
\* the current version by the commit classification when that is patch,
\* minor or major, and by the configured bump level only when it is none;
\* from v1.2.0 with bump minor: 1.3.0 without markers, 2.0.0 when the
\* scanned head commit contains #major.
C5_ReleaseBranchBump ==
  (Computed /\ OnReleaseBranch) =>
    /\ nextVersion =
         StandardIncrement(version,
           IF msgLevel \in {"patch", "minor", "major"} THEN msgLevel ELSE inputs.bump)
    /\ outputs.newTag = nextVersion
    /\ (tags = <<[name |-> T_v120, sha |-> 1]>> /\ inputs.bump = "minor") =>
         /\ (\A k \in 1..MaxCommits : commits[k] = M_text) =>
              nextVersion = Str(<<>>, <<1, 3, 0>>, <<>>)
         /\ (Sha > 1 /\ commits[Sha] = M_major) =>
              nextVersion = Str(<<>>, <<2, 0, 0>>, <<>>)

C5_Witness ==
  /\ Computed
  /\ OnReleaseBranch
  /\ tags = <<[name |-> T_v120, sha |-> 1]>>
  /\ inputs.bump = "minor"
  /\ commits[Sha] = M_major
  /\ msgLevel = "major"
  /\ nextVersion = Str(<<>>, <<2, 0, 0>>, <<>>)

\* the name of the resolved branch: its ref without refs/heads/
ResolvedBranchName == SubSeq(branchInfo.ref, Len(RefsHeads) + 1, Len(branchInfo.ref))

\* C6 (as claimed): with the tags v1.2.0 and v1.2.1-rc.1 and the resolved
\* branch feature/x, not a release branch, the next version is
\* 1.2.1-feature.x.0.
C6_FeatureBranchPrerelease ==
  ( /\ Computed
    /\ {tags[i].name : i \in 1..Len(tags)} = {T_v120, T_v121rc1}
    /\ ResolvedBranchName = B_feature_x
    /\ ~IsReleaseBranch(B_feature_x, inputs.releaseBranch) )
  => nextVersion = Str(<<>>, <<1, 2, 1>>, <<<<"f", "e", "a", "t", "u", "r", "e">>, <<"x">>, <<"0">>>>)

\* X.Y.Z-<branch>.N as the claim states it, the branch name giving the
\* prerelease identifiers (feature/x reads feature.x)
ClaimedPrerelease(cur, branch) ==
  LET ids == Split(branch, "/")
  IN IF cur.pre # <<>> /\ SubSeq(cur.pre, 1, Len(cur.pre) - 1) = ids
          /\ AllDigits(Last(cur.pre))
     THEN Str(<<>>, cur.core, ids \o <<ToDigits(FromDigits(Last(cur.pre)) + 1)>>)
     ELSE IF cur.pre # <<>>
     THEN Str(<<>>, cur.core, ids \o <<<<"0">>>>)
     ELSE Str(<<>>, <<cur.core[1], cur.core[2], cur.core[3] + 1>>, ids \o <<<<"0">>>>)

\* C7 (as claimed): off a release branch the next version is
\* X.Y.Z-<branch>.N, N the current number plus one when the current
\* prerelease is already that of the branch and 0 otherwise (the patch
\* incremented first when there is no prerelease), whatever the commit
\* classification and the configured bump level.
C7_PrereleaseIncrement ==
  (Computed /\ ~IsReleaseBranch(ResolvedBranchName, inputs.releaseBranch))
  => nextVersion = ClaimedPrerelease(version, ResolvedBranchName)

\* C7 for the branches whose name holds no "/": the code agrees with the claim
C7_WithoutSlash ==
  (Computed /\ ~OnReleaseBranch /\ ResolvedBranchName = BranchName)
  => nextVersion = ClaimedPrerelease(version, ResolvedBranchName)

LatestTagOnHead ==
  /\ branchInfo # Null
  /\ GetLatestTag(TRUE) # Null
  /\ GetLatestTag(TRUE).sha = branchInfo.sha

\* C8 (as claimed): whenever the latest valid-semver tag sits on the head
\* commit of the resolved branch the run fails and createRef is never called.
C8_LatestOnHeadFails ==
  LatestTagOnHead => (pc # "done" /\ CreateRefCalls = {})

\* C8 (amended): when no custom tag is configured and the latest
\* valid-semver tag sits on the head commit of the resolved branch, the run
\* fails before listing commits, and createRef is never called.
C8_NoCustomTagLatestOnHeadFails ==
  (inputs.tag = EmptyName /\ LatestTagOnHead) =>
    /\ pc \in {"resolved", "latest", "failed"}
    /\ CreateRefCalls = {}
    /\ created = <<>>
    /\ nextVersion = Null

C8_Witness ==
  /\ inputs.tag = EmptyName
  /\ LatestTagOnHead
  /\ latestMainTag # Null
  /\ latestMainTag # latestTag
  /\ pc = "failed"
  /\ failure = "no new commits, avoid tagging"

ForcedBranchMissing ==
  /\ inputs.branch # <<>>
  /\ ~\E n \in 1..Len(refs) : refs[n].ref = RefsHeads \o inputs.branch

\* C9 (as claimed): a forced branch that does not exist remotely under
\* exactly that name makes the run fail without resolving any branch and
\* without computing or creating a tag; a forced branch that resolves is the
\* branch of exactly the configured name.
C9_ForcedBranchExact ==
  /\ ForcedBranchMissing =>
       /\ branchInfo = Null
       /\ pc \in {"start", "failed"}
       /\ nextVersion = Null
       /\ created = <<>>
  /\ (inputs.branch # <<>> /\ branchInfo # Null) =>
       /\ branchInfo.ref = RefsHeads \o inputs.branch
       /\ BranchName = inputs.branch

Qualifying == {i \in 1..Len(tags) : Clean(tags[i].name) # Null}

QualifyingMain == {i \in Qualifying : Clean(tags[i].name).pre = <<>>}

TagsResolved == inputs.tag = EmptyName /\ outputs.tag # Unset

\* C10 (as claimed): latest is a qualifying tag >= every qualifying tag,
\* latest main is the maximum of the qualifying tags without prerelease
\* identifiers and never a prerelease, each is absent exactly when no tag
\* qualifies for it, and an absent latest reads as 0.0.0.
C10_TagResolver ==
  TagsResolved =>
    /\ (latestTag = Null) <=> (Qualifying = {})
    /\ latestTag # Null =>
         /\ \E i \in Qualifying : tags[i] = latestTag
         /\ \A j \in Qualifying :
              Compare(Clean(latestTag.name), Clean(tags[j].name)) >= 0
    /\ (latestMainTag = Null) <=> (QualifyingMain = {})
    /\ latestMainTag # Null =>
         /\ \E i \in QualifyingMain : tags[i] = latestMainTag
         /\ Clean(latestMainTag.name).pre = <<>>
         /\ \A j \in QualifyingMain :
              Compare(Clean(latestMainTag.name), Clean(tags[j].name)) >= 0
    /\ outputs.tag = (IF latestTag = Null THEN Str(<<>>, <<0, 0, 0>>, <<>>)
                      ELSE latestTag.name)

\* C10 for tag lists whose names carry no lead other than one "v": the
\* resolver agrees with the claim
C10_PlainNames ==
  (TagsResolved /\ \A i \in Qualifying : tags[i].name.lead \in {<<>>, <<"v">>})
  => C10_TagResolver

\* the tag a run created from the version it computed
CreatedTag == [name |-> created[1].ref, sha |-> created[1].sha]

ComputedAndCreated == created # <<>> /\ inputs.tag = EmptyName

\* C11 (as claimed): when a run computes and creates a tag, the tag list
\* with that tag added resolves to it as the latest tag: its name is valid
\* semver and its version is strictly greater than that of every tag that
\* qualified before, on release and non-release branches alike.
C11_RoundTrip ==
  ComputedAndCreated =>
    /\ Clean(CreatedTag.name) # Null
    /\ LatestOf(Append(tags, CreatedTag), TRUE) = CreatedTag
    /\ \A i \in Qualifying :
         Compare(Clean(CreatedTag.name), Clean(tags[i].name)) > 0

\* the same on release branches only
C11_OnReleaseBranch ==
  (ComputedAndCreated /\ OnReleaseBranch) =>
    /\ Clean(CreatedTag.name) # Null
    /\ LatestOf(Append(tags, CreatedTag), TRUE) = CreatedTag
    /\ \A i \in Qualifying :
         Compare(Clean(CreatedTag.name), Clean(tags[i].name)) > 0

\* the scan is at a commit carrying #major and no #wip
AtMajorCommit ==
  /\ AtCommit
  /\ ~MarkerTest(S_wip, Message)
  /\ MarkerTest(S_major, Message)

IssueLookups == {i \in 1..Len(calls) : calls[i] = "issues.get"}

\* C12: a scanned commit carrying #major and no #wip makes the
\* classification major and ends the scan at that commit, whatever a newer
\* commit had set: from then on the scan position stays at that commit,
\* the classification stays major and no issue lookup is issued.
C12_MajorHalts ==
  /\ [][AtMajorCommit =>
          /\ msgLevel' = "major"
          /\ pc' = "compute"
          /\ idx' = idx
          /\ calls' = calls
          /\ lookups' = lookups]_vars
  /\ [][msgLevel = "major" =>
          /\ msgLevel' = "major"
          /\ pc' # "scan"
          /\ idx' = idx
          /\ lookups' = lookups
          /\ {i \in 1..Len(calls') : calls'[i] = "issues.get"} = IssueLookups]_vars

\* a run went on to write after #major ended a scan in which a newer commit
\* had set minor
C12_Witness ==
  /\ pc = "done"
  /\ msgLevel = "major"
  /\ releaseBump = "minor"
  /\ idx > 1

\* the order none < patch < minor < major
Rank(level) ==
  CASE level = "none" -> 0
    [] level = "patch" -> 1
    [] level = "minor" -> 2
    [] level = "major" -> 3

\* C13: while the commits are scanned the running classification never
\* decreases in the order none < patch < minor < major: once it is minor no
\* later #patch marker or fix reference changes it, and the level the scan
\* returns is not below it.
C13_NeverDecreases ==
  [][/\ Rank(releaseBump') >= Rank(releaseBump)
     /\ (releaseBump = "minor" => releaseBump' = "minor")
     /\ (pc = "scan" /\ pc' = "compute" => Rank(msgLevel') >= Rank(releaseBump))]_vars

\* a scan passed a fix reference to an existing issue after a newer commit
\* had set minor
C13_Witness ==
  /\ pc = "scan"
  /\ idx > 2
  /\ releaseBump = "minor"
  /\ CommitData[1].message = M_minor
  /\ CommitData[2].message = M_fix1

\* the scan is at a commit carrying #wip
AtWipCommit == AtCommit /\ MarkerTest(S_wip, Message)

\* C14: a scanned commit carrying #wip leaves the classification as it was
\* and triggers no issue lookup, whatever other marker or fix reference it
\* carries; the scan goes on with the next commit.
C14_WipSkipped ==
  [][AtWipCommit =>
       /\ releaseBump' = releaseBump
       /\ msgLevel' = msgLevel
       /\ calls' = calls
       /\ lookups' = lookups
       /\ idx' = idx + 1
       /\ pc' = "scan"]_vars

\* the scan went past a head commit carrying #wip and #major
C14_Witness ==
  /\ pc = "scan"
  /\ idx = 2
  /\ CommitData[1].message = M_wip_major

\* the patterns the release-branch input configures
ConfiguredPatterns ==
  LET list == Split(inputs.releaseBranch, ",")
  IN {Trim(list[i]) : i \in 1..Len(list)} \ {<<>>}

MatchesConfiguredPattern ==
  \E p \in ConfiguredPatterns : RegExpTest(p, ResolvedBranchName)

\* C15 (as claimed): the branch is a release branch, bumped in full, exactly
\* when its name matches at least one configured pattern; a branch matching
\* none of them, also when no pattern is configured, gets the prerelease
\* increment and never a full bump.
C15_ReleaseIffPattern ==
  Computed =>
    /\ MatchesConfiguredPattern => nextVersion = Inc(version, ReleaseType, <<>>)
    /\ ~MatchesConfiguredPattern =>
         nextVersion = Inc(version, "prerelease", BranchName)

\* the same for the runs in which a pattern is configured
C15_PatternConfigured ==
  (Computed /\ ConfiguredPatterns # {}) => C15_ReleaseIffPattern

RemoteCallFailed == failure = "remote error"

\* C16: when a remote call fails, that call was issued once and is the last
\* call of the run: nothing is retried and no further remote call is
\* issued, no ref is created, and the run ends in the failure state
\* carrying the error's message.
C16_RemoteFailureEndsRun ==
  /\ [](RemoteCallFailed => pc = "failed" /\ created = <<>>)
  /\ [][failure = "" /\ failure' = "remote error" =>
          /\ NextCall # ""
          /\ calls' = Append(calls, NextCall)]_vars
  /\ [][RemoteCallFailed =>
          /\ calls' = calls
          /\ failure' = failure
          /\ pc' = pc]_vars

\* the lookup of the issue of a fix reference failed
C16_Witness ==
  /\ RemoteCallFailed
  /\ pc = "failed"
  /\ calls[Len(calls)] = "issues.get"

\* the position in the listed commits of the commit the latest main tag
\* points at, one past the end of the list when no listed commit is it
StopIndex ==
  LET at == {k \in 1..Len(CommitData) :
               latestMainTag # Null /\ CommitData[k].sha = latestMainTag.sha}
  IN IF at = {} THEN Len(CommitData) + 1
     ELSE CHOOSE k \in at : \A j \in at : k <= j

Scanning == pc \in {"scan", "compute", "write", "done"} /\ inputs.tag = EmptyName

\* C17: the scan never goes past the commit the latest main tag points at:
\* every issue lookup comes from a commit newer than it, and the scan ends
\* exactly there, or before it at a commit carrying #major; when no listed
\* commit is the tagged one, or there is no main tag, the scan ends at the
\* end of the list or at a commit carrying #major.
C17_StopAtTaggedCommit ==
  Scanning =>
    /\ idx <= StopIndex
    /\ \A i \in 1..Len(lookups) :
         \E k \in 1..(StopIndex - 1) :
           /\ k < idx
           /\ MatcherId(CommitData[k].message) = lookups[i]
    /\ pc # "scan" =>
         \/ idx = StopIndex
         \/ /\ idx < StopIndex
            /\ msgLevel = "major"
            /\ MarkerTest(S_major, CommitData[idx].message)

\* a scan ended at the tagged commit, which carries #major, without
\* returning major
C17_Witness ==
  /\ pc = "compute"
  /\ latestMainTag # Null
  /\ idx = StopIndex
  /\ idx <= Len(CommitData)
  /\ CommitData[idx].message = M_major
  /\ msgLevel # "major"

\* the issue carries a label whose name is in the enhancement set
EnhancementIssue(n) ==
  /\ n \in DOMAIN issues
  /\ \E i \in 1..Len(issues[n]) :
       issues[n][i].isObject /\ issues[n][i].name \in IssLabs

\* the classification of one commit message, by first match
Classify(message) ==
  IF MarkerTest(S_wip, message) THEN "none"
  ELSE IF MarkerTest(S_major, message) THEN "major"
  ELSE IF MarkerTest(S_minor, message) THEN "minor"
  ELSE IF MarkerTest(S_patch, message) THEN "patch"
  ELSE IF MatcherId(message) > 0
  THEN (IF EnhancementIssue(MatcherId(message)) THEN "minor" ELSE "patch")
  ELSE "none"

\* the highest rank among the commits newer than the tagged commit
HighestRank ==
  LET ranks == {Rank(Classify(CommitData[k].message)) : k \in 1..(StopIndex - 1)}
                 \cup {0}
  IN CHOOSE r \in ranks : \A q \in ranks : q <= r

\* C18: the level a completed scan returns is the highest, in the order
\* none < patch < minor < major, of the classifications of the commits newer
\* than the tagged commit, each commit classified by first match: #wip
\* none, #major, #minor, #patch, a fix reference to a positive issue number
\* minor when a label of the issue is in the enhancement set and patch
\* otherwise, anything else none.
C18_HighestClassification ==
  (Scanning /\ pc # "scan") => Rank(msgLevel) = HighestRank

\* a scan returned minor from the enhancement issue of an older commit after
\* a newer commit had set patch
C18_Witness ==
  /\ pc = "compute"
  /\ msgLevel = "minor"
  /\ lookups = <<2>>
  /\ CommitData[1].message = M_patch

\* the step issues an issue lookup
LookupIssued ==
  /\ calls' # calls
  /\ calls'[Len(calls')] = "issues.get"

NoMarker(message) ==
  /\ ~MarkerTest(S_wip, message)
  /\ ~MarkerTest(S_major, message)
  /\ ~MarkerTest(S_minor, message)
  /\ ~MarkerTest(S_patch, message)

\* C19: an issue lookup is issued only at a scanned commit that carries no
\* #wip, #major, #minor or #patch marker and a fix reference with a
\* positive number, reached while the classification is not minor; after
\* the lookup the classification is minor when a label name of the issue
\* is in the enhancement set and patch otherwise. A fix reference with
\* number 0 issues no lookup and leaves the classification unchanged.
C19_LookupOnlyForFix ==
  /\ [][LookupIssued =>
          /\ AtCommit
          /\ NoMarker(Message)
          /\ MatcherId(Message) > 0
          /\ releaseBump # "minor"
          /\ pc' = "scan" =>
               /\ lookups' = Append(lookups, MatcherId(Message))
               /\ idx' = idx + 1
               /\ releaseBump' = IF EnhancementIssue(MatcherId(Message))
                                  THEN "minor" ELSE "patch"]_vars
  /\ [][AtCommit /\ NoMarker(Message) /\ MatcherId(Message) = 0 =>
          /\ calls' = calls
          /\ lookups' = lookups
          /\ releaseBump' = releaseBump]_vars

\* the scan passed a head commit with fix #0 without a lookup and then
\* looked up issue 1 of the next commit
C19_Witness ==
  /\ pc = "scan"
  /\ idx = 3
  /\ CommitData[1].message = M_fix0
  /\ lookups = <<1>>
  /\ releaseBump = "patch"

\* C20 (as claimed): in every run that creates a ref the new-tag output is
\* the name of the created tag, the part of the ref after refs/tags/,
\* whatever the with-v setting and with or without a custom tag.
C20_NewTagOutputIsCreatedTag ==
  created # <<>> => outputs.newTag = created[1].ref

\* the same for the runs with a custom tag or with-v false
C20_WithoutPrefix ==
  (created # <<>> /\ (inputs.tag # EmptyName \/ WithV = <<>>)) =>
    outputs.newTag = created[1].ref

====
